---------------------------- MODULE Spec2Model ----------------------------
(***************************************************************************)
(* FlexOS UEFI hand-off: get_memory_map (boot_services/get_memory_map.c)   *)
(* and exit_boot_services (runtime_services/exit_boot_services.c).         *)
(*                                                                         *)
(* One behaviour is one invocation of one of the two functions against a   *)
(* firmware whose answers (status, sizes, key, addresses) are chosen       *)
(* nondeterministically at every call.  Every firmware call is one step;   *)
(* the step also runs the code that follows the call up to the next        *)
(* firmware call or return.                                                *)
(***************************************************************************)
EXTENDS Integers, FiniteSets, Sequences, TLC

----------------------------------------------------------------------------
(* Bounds of the model: the ranges the firmware's answers are drawn from.  *)

MaxSize == 1      \* map sizes reported by the probe are 0..MaxSize
MaxDesc == 1      \* descriptor sizes reported are 0..MaxDesc
MaxKey  == 1      \* map keys reported are 0..MaxKey
MaxVer  == 1      \* descriptor versions reported are 1..MaxVer
MaxAddr == 2      \* pool addresses are 4, 8, .., 4 * MaxAddr

----------------------------------------------------------------------------
(* Program constants.                                                      *)

MEMORY_MAP_MAX_RETRIES == 8
MEMORY_MAP_EXTRA_DESCRIPTORS == 16
EXIT_BOOT_SERVICES_MAX_RETRIES == 8

NULL == 0

EFI_SUCCESS           == "EFI_SUCCESS"
EFI_BUFFER_TOO_SMALL  == "EFI_BUFFER_TOO_SMALL"
EFI_INVALID_PARAMETER == "EFI_INVALID_PARAMETER"
EFI_OUT_OF_RESOURCES  == "EFI_OUT_OF_RESOURCES"
EFI_DEVICE_ERROR      == "EFI_DEVICE_ERROR"
EFI_NOT_READY         == "EFI_NOT_READY"
EFI_ABORTED           == "EFI_ABORTED"
NoStatus              == "none"

\* EFI_ERROR(): the status has the error bit set.  Of the statuses used
\* here only EFI_SUCCESS has not.
EFI_ERROR(s) == s \in {EFI_BUFFER_TOO_SMALL, EFI_INVALID_PARAMETER,
                       EFI_OUT_OF_RESOURCES, EFI_DEVICE_ERROR,
                       EFI_NOT_READY, EFI_ABORTED}

----------------------------------------------------------------------------
(* The firmware boundary: what each boot service may answer.               *)

\* BS->GetMemoryMap: the statuses UEFI documents, for the probe and the fetch.
GetMemoryMapStatuses == {EFI_SUCCESS, EFI_BUFFER_TOO_SMALL, EFI_INVALID_PARAMETER}
\* BS->AllocatePool
AllocatePoolStatuses == {EFI_SUCCESS, EFI_OUT_OF_RESOURCES, EFI_INVALID_PARAMETER}
\* BS->ExitBootServices
ExitBootServicesStatuses == {EFI_SUCCESS, EFI_INVALID_PARAMETER}

ProbeSizes == 0..MaxSize
DescSizes  == 0..MaxDesc
Keys       == 0..MaxKey
Versions   == 1..MaxVer
\* Addresses AllocatePool may hand out: non-null, some 8-byte aligned, some not.
Addrs      == {4 * a : a \in 1..MaxAddr}
\* The size a fetch answering st may write back through its in/out size
\* argument, which held sz: the size of the map it stored (success), the
\* larger size it needs (buffer too small), or nothing (any other error).
FetchSizes(st, sz) ==
    IF st = EFI_SUCCESS
    THEN {s \in 0..sz : s >= sz - MaxSize}
    ELSE IF st = EFI_BUFFER_TOO_SMALL
         THEN (sz + 1)..(sz + MaxSize)
         ELSE {sz}

\* gST: absent, present without a boot-services table, or complete.
GSTStates == {"null", "no_boot_services", "ready"}

\* What the caller's *MemoryMap and *MemoryMapSize may hold before the call:
\* zeroes, or a pointer and a size left over from earlier use.
CallerOuts == {<<NULL, 0>>, <<4 * MaxAddr + 1, MaxSize + 1>>}
\* The five pointer parameters of get_memory_map.
GmmParams == {"MemoryMap", "MemoryMapSize", "MapKey", "DescriptorSize",
              "DescriptorVersion"}
Handles == {NULL, 1}

----------------------------------------------------------------------------
VARIABLES
    op,                 \* "none", "gmm" (get_memory_map), "ebs" (exit_boot_services)
    pc,                 \* position in the running function
    gST,                \* the global system table pointer
    ImageHandle,        \* exit_boot_services: its argument
    nullArgs,           \* get_memory_map: the parameters passed as NULL
    Retry,              \* loop counter
    Status,             \* local Status
    Map,                \* get_memory_map: Map; exit_boot_services: MemoryMap
    Size,               \* get_memory_map: Size; exit_boot_services: MemoryMapSize
    MapKey,             \* *MapKey / MapKey
    DescriptorSize,     \* *DescriptorSize / DescriptorSize
    DescriptorVersion,  \* *DescriptorVersion / DescriptorVersion
    outMemoryMap,       \* get_memory_map: *MemoryMap
    outMemoryMapSize,   \* get_memory_map: *MemoryMapSize
    ret,                \* returned status
    retLine,            \* source line of the return statement taken, 0 before
    outstanding,        \* pool buffers allocated and not released
    badFree,            \* a FreePool of something that was not outstanding
    nProbe, nAlloc, nFetch, nFetchFail, nFree, nExit, nExitFail,
                        \* firmware calls made so far, and how many failed
    probedSize,         \* size the probe of this attempt reported
    probedDesc,         \* descriptor size the probe of this attempt reported
    allocSize,          \* size passed to AllocatePool in this attempt
    fetchedSize,        \* size the successful fetch of this attempt wrote back
    fetchArgSize,       \* buffer size passed to that fetch
    fetchedStatus,      \* status that fetch returned
    fetchedKey,         \* map key that fetch reported
    fetchedDesc,        \* descriptor size that fetch reported
    fetchedVer,         \* descriptor version that fetch reported
    exitKey,            \* map key passed to the handshake of this attempt
    allocFailed,        \* an AllocatePool call has answered with an error
    lastCall,           \* the firmware service called last
    inMemoryMap,        \* get_memory_map: *MemoryMap when it was called
    inMemoryMapSize     \* get_memory_map: *MemoryMapSize when it was called

locals   == <<Retry, Status, Map, Size>>
outs     == <<MapKey, DescriptorSize, DescriptorVersion>>
callouts == <<outMemoryMap, outMemoryMapSize>>
result   == <<ret, retLine>>
pool     == <<outstanding, badFree>>
counts   == <<nProbe, nAlloc, nFetch, nFetchFail, nFree, nExit, nExitFail>>
ghost    == <<probedSize, probedDesc, allocSize, fetchedSize>>
env      == <<op, gST, ImageHandle, nullArgs>>
fetched  == <<fetchArgSize, fetchedStatus, fetchedKey, fetchedDesc, fetchedVer>>
callerIn == <<inMemoryMap, inMemoryMapSize>>

vars == <<pc, env, locals, outs, callouts, result, pool, counts, ghost,
          fetched, exitKey, allocFailed, lastCall, callerIn>>

----------------------------------------------------------------------------
Init ==
    /\ op = "none"
    /\ pc = "idle"
    /\ gST \in GSTStates
    /\ ImageHandle = NULL
    /\ nullArgs = {}
    /\ Retry = 0
    /\ Status = NoStatus
    /\ Map = NULL
    /\ Size = 0
    /\ MapKey = 0
    /\ DescriptorSize = 0
    /\ DescriptorVersion = 0
    /\ outMemoryMap = NULL
    /\ outMemoryMapSize = 0
    /\ ret = NoStatus
    /\ retLine = 0
    /\ outstanding = {}
    /\ badFree = FALSE
    /\ nProbe = 0 /\ nAlloc = 0 /\ nFetch = 0 /\ nFetchFail = 0
    /\ nFree = 0 /\ nExit = 0 /\ nExitFail = 0
    /\ probedSize = 0 /\ probedDesc = 0 /\ allocSize = 0 /\ fetchedSize = 0
    /\ fetchArgSize = 0
    /\ fetchedStatus = NoStatus
    /\ fetchedKey = 0 /\ fetchedDesc = 0 /\ fetchedVer = 0
    /\ exitKey = 0
    /\ allocFailed = FALSE
    /\ lastCall = "none"
    /\ inMemoryMap = NULL
    /\ inMemoryMapSize = 0

\* return <s>; at source line <line>
Return(s, line) ==
    /\ pc' = "done"
    /\ ret' = s
    /\ retLine' = line

\* BS->FreePool(p)
FreePool(p) ==
    /\ outstanding' = outstanding \ {p}
    /\ badFree' = (badFree \/ p \notin outstanding)
    /\ nFree' = nFree + 1

\* The attempt is over: the record of its probe, allocation and fetch is
\* cleared.
AttemptOver ==
    /\ probedSize' = 0
    /\ probedDesc' = 0
    /\ allocSize' = 0
    /\ fetchedSize' = 0
    /\ fetchArgSize' = 0
    /\ fetchedStatus' = NoStatus
    /\ fetchedKey' = 0
    /\ fetchedDesc' = 0
    /\ fetchedVer' = 0
    /\ exitKey' = 0

\* (UINTN)Map % sizeof(UINT64) != 0
Misaligned(p) == p % 8 # 0

\* The record of a fetch that was passed a buffer of arg bytes and answered
\* st, sz, k, d, v.  A failed fetch abandons the attempt, whose record is
\* cleared.
FetchRecord(arg, st, sz, k, d, v) ==
    IF EFI_ERROR(st)
    THEN AttemptOver
    ELSE /\ fetchArgSize' = arg
         /\ fetchedStatus' = st
         /\ fetchedSize' = sz
         /\ fetchedKey' = k
         /\ fetchedDesc' = d
         /\ fetchedVer' = v
         /\ UNCHANGED <<probedSize, probedDesc, allocSize, exitKey>>


----------------------------------------------------------------------------
(* get_memory_map                                                          *)

\* for (...; Retry < MEMORY_MAP_MAX_RETRIES; ...)
GmmLoopCond_OffByOne(r) == r <= MEMORY_MAP_MAX_RETRIES
GmmLoopCond(r) == r < MEMORY_MAP_MAX_RETRIES

\* The loop test with Retry = r: enter the body (Size = 0; then the probe), or
\* fall out of the loop to the final return.
GmmLoopHead(r) ==
    /\ Retry' = r
    /\ IF GmmLoopCond(r)
       THEN Size' = 0 /\ pc' = "gmm_probe" /\ UNCHANGED result
       ELSE UNCHANGED Size /\ Return(EFI_DEVICE_ERROR, 120)

\* Entry: the parameter and readiness checks, then the first loop test.
GmmEntry_NoReadyCheck(na) ==
    /\ Map' = NULL
    /\ Status' = NoStatus
    /\ IF na # {}
       THEN Return(EFI_INVALID_PARAMETER, 55) /\ Retry' = 0 /\ Size' = 0
       ELSE GmmLoopHead(0)
GmmEntry(na) ==
    /\ Map' = NULL
    /\ Status' = NoStatus
    /\ IF na # {}
       THEN Return(EFI_INVALID_PARAMETER, 55) /\ Retry' = 0 /\ Size' = 0
       ELSE IF gST # "ready"
            THEN Return(EFI_NOT_READY, 60) /\ Retry' = 0 /\ Size' = 0
            ELSE GmmLoopHead(0)

CallGetMemoryMap ==
    /\ pc = "idle"
    /\ \E na \in SUBSET GmmParams, c \in CallerOuts,
          k \in Keys, d \in DescSizes, v \in Versions :
        /\ op' = "gmm"
        /\ nullArgs' = na
        /\ outMemoryMap' = c[1]
        /\ outMemoryMapSize' = c[2]
        /\ MapKey' = k
        /\ DescriptorSize' = d
        /\ DescriptorVersion' = v
        /\ GmmEntry(na)
    /\ UNCHANGED <<gST, ImageHandle, pool, counts, ghost>>
    /\ inMemoryMap' = outMemoryMap'
    /\ inMemoryMapSize' = outMemoryMapSize'
    /\ UNCHANGED <<fetched, exitKey, allocFailed, lastCall>>

\* What the code does with the probe's answer: status st, required size sz,
\* descriptor size d.
GmmProbed_Slack8(st, sz, d) ==
    /\ Status' = st
    /\ IF st # EFI_BUFFER_TOO_SMALL
       THEN /\ Size' = sz
            /\ Return(st, 79)
       ELSE /\ Size' = sz + d * 8
            /\ pc' = "gmm_alloc"
            /\ UNCHANGED result
GmmProbed(st, sz, d) ==
    /\ Status' = st
    /\ IF st # EFI_BUFFER_TOO_SMALL
       THEN /\ Size' = sz
            /\ Return(st, 79)
       ELSE /\ Size' = sz + d * MEMORY_MAP_EXTRA_DESCRIPTORS
            /\ pc' = "gmm_alloc"
            /\ UNCHANGED result

\* Status = BS->GetMemoryMap(&Size, NULL, MapKey, DescriptorSize,
\* DescriptorVersion); with Size = 0, and the code up to the allocation.
GmmProbe ==
    /\ pc = "gmm_probe"
    /\ MapKey' \in Keys
    /\ DescriptorSize' \in DescSizes
    /\ DescriptorVersion' \in Versions
    /\ \E st \in GetMemoryMapStatuses, sz \in ProbeSizes :
        /\ probedSize' = sz
        /\ probedDesc' = DescriptorSize'
        /\ GmmProbed(st, sz, DescriptorSize')
    /\ nProbe' = nProbe + 1
    /\ UNCHANGED <<env, Retry, Map, callouts, pool, allocSize, fetchedSize,
                   nAlloc, nFetch, nFetchFail, nFree, nExit, nExitFail>>
    /\ lastCall' = "probe"
    /\ UNCHANGED <<fetched, exitKey, allocFailed, callerIn>>

\* What the code does with AllocatePool's status.
GmmAllocated_Retry(st) ==
    /\ Status' = st
    /\ IF EFI_ERROR(st)
       THEN pc' = "gmm_probe" /\ UNCHANGED result
       ELSE pc' = "gmm_fetch" /\ UNCHANGED result
GmmAllocated(st) ==
    /\ Status' = st
    /\ IF EFI_ERROR(st)
       THEN Return(st, 88)
       ELSE pc' = "gmm_fetch" /\ UNCHANGED result

\* Status = BS->AllocatePool(EfiLoaderData, Size, (void **)&Map);
GmmAlloc ==
    /\ pc = "gmm_alloc"
    /\ \E st \in AllocatePoolStatuses, a \in Addrs \ outstanding :
        /\ IF st = EFI_SUCCESS
           THEN Map' = a /\ outstanding' = outstanding \cup {a}
           ELSE UNCHANGED <<Map, outstanding>>
        /\ GmmAllocated(st)
    /\ nAlloc' = nAlloc + 1
    /\ allocSize' = Size
    /\ allocFailed' = (allocFailed \/ Status' # EFI_SUCCESS)
    /\ UNCHANGED <<env, Retry, Size, outs, callouts, badFree, probedSize,
                   probedDesc, fetchedSize, nProbe, nFetch, nFetchFail,
                   nFree, nExit, nExitFail>>
    /\ lastCall' = "alloc"
    /\ UNCHANGED <<fetched, exitKey, callerIn>>

\* What the code does with the fetch's status; the fetch has already written
\* Size (named sz here).
GmmFetched_NoAlignCheck(st, sz) ==
    IF EFI_ERROR(st)
    THEN pc' = "gmm_free_retry" /\ UNCHANGED <<callouts, result>>
    ELSE /\ outMemoryMap' = Map
         /\ outMemoryMapSize' = sz
         /\ Return(EFI_SUCCESS, 116)
GmmFetched_AllocSize(st, sz) ==
    IF EFI_ERROR(st)
    THEN pc' = "gmm_free_retry" /\ UNCHANGED <<callouts, result>>
    ELSE IF Misaligned(Map)
         THEN pc' = "gmm_free_misaligned" /\ UNCHANGED <<callouts, result>>
         ELSE /\ outMemoryMap' = Map
              /\ outMemoryMapSize' = allocSize
              /\ Return(EFI_SUCCESS, 116)
GmmFetched_EarlyWrite(st, sz) ==
    IF EFI_ERROR(st)
    THEN pc' = "gmm_free_retry" /\ UNCHANGED <<callouts, result>>
    ELSE /\ outMemoryMap' = Map
         /\ outMemoryMapSize' = sz
         /\ IF Misaligned(Map)
            THEN pc' = "gmm_free_misaligned" /\ UNCHANGED result
            ELSE Return(EFI_SUCCESS, 116)
GmmFetched(st, sz) ==
    IF EFI_ERROR(st)
    THEN pc' = "gmm_free_retry" /\ UNCHANGED <<callouts, result>>
    ELSE IF Misaligned(Map)
         THEN pc' = "gmm_free_misaligned" /\ UNCHANGED <<callouts, result>>
         ELSE /\ outMemoryMap' = Map
              /\ outMemoryMapSize' = sz
              /\ Return(EFI_SUCCESS, 116)

\* Status = BS->GetMemoryMap(&Size, Map, MapKey, DescriptorSize,
\* DescriptorVersion); and the code up to the next firmware call or return.
GmmFetch ==
    /\ pc = "gmm_fetch"
    /\ MapKey' \in Keys
    /\ DescriptorSize' \in DescSizes
    /\ DescriptorVersion' \in Versions
    /\ \E st \in GetMemoryMapStatuses : \E sz \in FetchSizes(st, Size) :
        /\ Status' = st
        /\ Size' = sz
        /\ FetchRecord(Size, st, sz, MapKey', DescriptorSize',
                       DescriptorVersion')
        /\ nFetchFail' = IF st = EFI_SUCCESS THEN nFetchFail ELSE nFetchFail + 1
        /\ GmmFetched(st, sz)
    /\ nFetch' = nFetch + 1
    /\ UNCHANGED <<env, Retry, Map, pool,
                   nProbe, nAlloc, nFree, nExit, nExitFail>>
    /\ lastCall' = "fetch"
    /\ UNCHANGED <<allocFailed, callerIn>>

\* The failed-fetch path: BS->FreePool(Map); Map = NULL; continue;
GmmFreeRetry_Leak ==
    /\ pc = "gmm_free_retry"
    /\ Map' = NULL
    /\ AttemptOver
    /\ GmmLoopHead(Retry + 1)
    /\ UNCHANGED <<env, Status, outs, callouts, pool, nFree,
                   nProbe, nAlloc, nFetch, nFetchFail, nExit, nExitFail>>
    /\ UNCHANGED <<allocFailed, lastCall, callerIn>>
GmmFreeRetry ==
    /\ pc = "gmm_free_retry"
    /\ FreePool(Map)
    /\ Map' = NULL
    /\ AttemptOver
    /\ GmmLoopHead(Retry + 1)
    /\ UNCHANGED <<env, Status, outs, callouts,
                   nProbe, nAlloc, nFetch, nFetchFail, nExit, nExitFail>>
    /\ lastCall' = "free"
    /\ UNCHANGED <<allocFailed, callerIn>>

\* The misaligned path: BS->FreePool(Map); return EFI_DEVICE_ERROR;
GmmFreeMisaligned ==
    /\ pc = "gmm_free_misaligned"
    /\ FreePool(Map)
    /\ Return(EFI_DEVICE_ERROR, 111)
    /\ UNCHANGED <<env, locals, outs, callouts, ghost,
                   nProbe, nAlloc, nFetch, nFetchFail, nExit, nExitFail>>
    /\ lastCall' = "free"
    /\ UNCHANGED <<fetched, exitKey, allocFailed, callerIn>>

----------------------------------------------------------------------------
(* exit_boot_services                                                      *)

\* for (...; Retry < EXIT_BOOT_SERVICES_MAX_RETRIES; ...)
EbsLoopCond_OffByOne(r) == r <= EXIT_BOOT_SERVICES_MAX_RETRIES
EbsLoopCond(r) == r < EXIT_BOOT_SERVICES_MAX_RETRIES

\* The loop test with Retry = r: enter the body (MemoryMapSize = 0; then the
\* probe), or fall out of the loop to the final return.
EbsLoopHead(r) ==
    /\ Retry' = r
    /\ IF EbsLoopCond(r)
       THEN Size' = 0 /\ pc' = "ebs_probe" /\ UNCHANGED result
       ELSE UNCHANGED Size /\ Return(EFI_ABORTED, 152)

\* Entry: the handle and readiness checks, then the first loop test.
EbsEntry_ReadyFirst(h) ==
    IF gST # "ready"
    THEN Return(EFI_NOT_READY, 66) /\ Retry' = 0 /\ Size' = 0
    ELSE IF h = NULL
         THEN Return(EFI_INVALID_PARAMETER, 61) /\ Retry' = 0 /\ Size' = 0
         ELSE EbsLoopHead(0)
EbsEntry(h) ==
    IF h = NULL
    THEN Return(EFI_INVALID_PARAMETER, 61) /\ Retry' = 0 /\ Size' = 0
    ELSE IF gST # "ready"
         THEN Return(EFI_NOT_READY, 66) /\ Retry' = 0 /\ Size' = 0
         ELSE EbsLoopHead(0)

CallExitBootServices ==
    /\ pc = "idle"
    /\ \E h \in Handles :
        /\ op' = "ebs"
        /\ ImageHandle' = h
        /\ EbsEntry(h)
    /\ Map' = NULL
    /\ MapKey' = 0
    /\ DescriptorSize' = 0
    /\ DescriptorVersion' = 0
    /\ UNCHANGED <<gST, nullArgs, Status, callouts, pool, counts, ghost>>
    /\ UNCHANGED <<fetched, exitKey, allocFailed, lastCall, callerIn>>

\* What the code does with the probe's answer.
EbsProbed(st, sz, d) ==
    /\ Status' = st
    /\ IF st # EFI_BUFFER_TOO_SMALL
       THEN /\ Size' = sz
            /\ Return(st, 87)
       ELSE /\ Size' = sz + d * 8
            /\ pc' = "ebs_alloc"
            /\ UNCHANGED result

\* Status = BS->GetMemoryMap(&MemoryMapSize, NULL, ...) with MemoryMapSize = 0
EbsProbe ==
    /\ pc = "ebs_probe"
    /\ MapKey' \in Keys
    /\ DescriptorSize' \in DescSizes
    /\ DescriptorVersion' \in Versions
    /\ \E st \in GetMemoryMapStatuses, sz \in ProbeSizes :
        /\ probedSize' = sz
        /\ probedDesc' = DescriptorSize'
        /\ EbsProbed(st, sz, DescriptorSize')
    /\ nProbe' = nProbe + 1
    /\ UNCHANGED <<env, Retry, Map, callouts, pool, allocSize, fetchedSize,
                   nAlloc, nFetch, nFetchFail, nFree, nExit, nExitFail>>
    /\ lastCall' = "probe"
    /\ UNCHANGED <<fetched, exitKey, allocFailed, callerIn>>

EbsAllocated(st) ==
    /\ Status' = st
    /\ IF EFI_ERROR(st)
       THEN Return(st, 104)
       ELSE pc' = "ebs_fetch" /\ UNCHANGED result

\* Status = BS->AllocatePool(EfiLoaderData, MemoryMapSize, (void **)&MemoryMap);
EbsAlloc ==
    /\ pc = "ebs_alloc"
    /\ \E st \in AllocatePoolStatuses, a \in Addrs \ outstanding :
        /\ IF st = EFI_SUCCESS
           THEN Map' = a /\ outstanding' = outstanding \cup {a}
           ELSE UNCHANGED <<Map, outstanding>>
        /\ EbsAllocated(st)
    /\ nAlloc' = nAlloc + 1
    /\ allocSize' = Size
    /\ allocFailed' = (allocFailed \/ Status' # EFI_SUCCESS)
    /\ UNCHANGED <<env, Retry, Size, outs, callouts, badFree, probedSize,
                   probedDesc, fetchedSize, nProbe, nFetch, nFetchFail,
                   nFree, nExit, nExitFail>>
    /\ lastCall' = "alloc"
    /\ UNCHANGED <<fetched, exitKey, callerIn>>

EbsFetched(st) ==
    /\ IF EFI_ERROR(st)
       THEN pc' = "ebs_free_fetch"
       ELSE pc' = "ebs_exit"
    /\ UNCHANGED result

\* Status = BS->GetMemoryMap(&MemoryMapSize, MemoryMap, &MapKey, ...)
EbsFetch_KeyNotTaken ==
    /\ pc = "ebs_fetch"
    /\ MapKey' = MapKey
    /\ DescriptorSize' \in DescSizes
    /\ DescriptorVersion' \in Versions
    /\ \E st \in GetMemoryMapStatuses, k \in Keys : \E sz \in FetchSizes(st, Size) :
        /\ Status' = st
        /\ Size' = sz
        /\ FetchRecord(Size, st, sz, k, DescriptorSize', DescriptorVersion')
        /\ nFetchFail' = IF st = EFI_SUCCESS THEN nFetchFail ELSE nFetchFail + 1
        /\ EbsFetched(st)
    /\ nFetch' = nFetch + 1
    /\ UNCHANGED <<env, Retry, Map, callouts, pool,
                   nProbe, nAlloc, nFree, nExit, nExitFail>>
    /\ lastCall' = "fetch"
    /\ UNCHANGED <<allocFailed, callerIn>>
EbsFetch ==
    /\ pc = "ebs_fetch"
    /\ MapKey' \in Keys
    /\ DescriptorSize' \in DescSizes
    /\ DescriptorVersion' \in Versions
    /\ \E st \in GetMemoryMapStatuses : \E sz \in FetchSizes(st, Size) :
        /\ Status' = st
        /\ Size' = sz
        /\ FetchRecord(Size, st, sz, MapKey', DescriptorSize',
                       DescriptorVersion')
        /\ nFetchFail' = IF st = EFI_SUCCESS THEN nFetchFail ELSE nFetchFail + 1
        /\ EbsFetched(st)
    /\ nFetch' = nFetch + 1
    /\ UNCHANGED <<env, Retry, Map, callouts, pool,
                   nProbe, nAlloc, nFree, nExit, nExitFail>>
    /\ lastCall' = "fetch"
    /\ UNCHANGED <<allocFailed, callerIn>>

\* The failed-fetch path: BS->FreePool(MemoryMap); MemoryMap = NULL; continue;
EbsFreeFetch_NoAdvance ==
    /\ pc = "ebs_free_fetch"
    /\ FreePool(Map)
    /\ Map' = NULL
    /\ AttemptOver
    /\ EbsLoopHead(Retry)
    /\ UNCHANGED <<env, Status, outs, callouts,
                   nProbe, nAlloc, nFetch, nFetchFail, nExit, nExitFail>>
    /\ lastCall' = "free"
    /\ UNCHANGED <<allocFailed, callerIn>>
EbsFreeFetch ==
    /\ pc = "ebs_free_fetch"
    /\ FreePool(Map)
    /\ Map' = NULL
    /\ AttemptOver
    /\ EbsLoopHead(Retry + 1)
    /\ UNCHANGED <<env, Status, outs, callouts,
                   nProbe, nAlloc, nFetch, nFetchFail, nExit, nExitFail>>
    /\ lastCall' = "free"
    /\ UNCHANGED <<allocFailed, callerIn>>

\* What the code does with the handshake's status.
EbsExited(st) ==
    /\ Status' = st
    /\ IF st = EFI_SUCCESS
       THEN Return(EFI_SUCCESS, 132)
       ELSE pc' = "ebs_free_exit" /\ UNCHANGED result

\* Status = BS->ExitBootServices(ImageHandle, MapKey);
EbsExit ==
    /\ pc = "ebs_exit"
    /\ \E st \in ExitBootServicesStatuses :
        /\ nExitFail' = IF st = EFI_SUCCESS THEN nExitFail ELSE nExitFail + 1
        /\ EbsExited(st)
    /\ nExit' = nExit + 1
    /\ UNCHANGED <<env, Retry, Map, Size, outs, callouts, pool, ghost,
                   nProbe, nAlloc, nFetch, nFetchFail, nFree>>
    /\ lastCall' = "exit"
    /\ exitKey' = MapKey
    /\ UNCHANGED <<fetched, allocFailed, callerIn>>

\* The failed-handshake path: BS->FreePool(MemoryMap); MemoryMap = NULL; and
\* the end of the loop body.
EbsFreeExit_Leak ==
    /\ pc = "ebs_free_exit"
    /\ UNCHANGED <<pool, nFree>>
    /\ Map' = NULL
    /\ AttemptOver
    /\ EbsLoopHead(Retry + 1)
    /\ UNCHANGED <<env, Status, outs, callouts,
                   nProbe, nAlloc, nFetch, nFetchFail, nExit, nExitFail>>
    /\ lastCall' = "free"
    /\ UNCHANGED <<allocFailed, callerIn>>
EbsFreeExit ==
    /\ pc = "ebs_free_exit"
    /\ FreePool(Map)
    /\ Map' = NULL
    /\ AttemptOver
    /\ EbsLoopHead(Retry + 1)
    /\ UNCHANGED <<env, Status, outs, callouts,
                   nProbe, nAlloc, nFetch, nFetchFail, nExit, nExitFail>>
    /\ lastCall' = "free"
    /\ UNCHANGED <<allocFailed, callerIn>>

----------------------------------------------------------------------------
Next ==
    \/ CallGetMemoryMap
    \/ GmmProbe
    \/ GmmAlloc
    \/ GmmFetch
    \/ GmmFreeRetry
    \/ GmmFreeMisaligned
    \/ CallExitBootServices
    \/ EbsProbe
    \/ EbsAlloc
    \/ EbsFetch
    \/ EbsFreeFetch
    \/ EbsExit
    \/ EbsFreeExit

Spec == Init /\ [][Next]_vars

\* The steps of the function once it has been called.  Every firmware call
\* returns and the code is straight-line between the calls, so a called
\* function that can take a step does take one.
Run == pc # "idle" /\ Next
FairSpec == Spec /\ WF_vars(Run)

TypeOK ==
    /\ op \in {"none", "gmm", "ebs"}
    /\ pc \in {"idle", "done", "gmm_probe", "gmm_alloc", "gmm_fetch",
               "gmm_free_retry", "gmm_free_misaligned", "ebs_probe",
               "ebs_alloc", "ebs_fetch", "ebs_free_fetch", "ebs_exit",
               "ebs_free_exit"}
    /\ Retry \in 0..8
    /\ Map \in {NULL} \cup Addrs
    /\ outstanding \subseteq Addrs

----------------------------------------------------------------------------
(* Properties                                                              *)

GmmDone == op = "gmm" /\ pc = "done"
EbsDone == op = "ebs" /\ pc = "done"
\* A fetch of this invocation has succeeded (a success ends the fetching).
FetchSucceeded == nFetch > nFetchFail

\* C1: in get_memory_map a probe answering anything but "buffer too small"
\* makes the call fail: the return on that path carries a non-success status
\* and follows no allocation or fetch of that attempt; and get_memory_map
\* returns EFI_SUCCESS only after a fetch into an allocated buffer succeeded.
C1_ProbeAnomalyFails ==
    GmmDone =>
        /\ retLine = 79 =>
              /\ ret # EFI_SUCCESS
              /\ nAlloc = nProbe - 1
              /\ nFetch = nProbe - 1
        /\ ret = EFI_SUCCESS => FetchSucceeded /\ Map \in outstanding

\* C2: exit_boot_services returns EFI_SUCCESS if and only if the handshake
\* was called in this invocation and its last call returned success.
C2_SuccessIffHandshake ==
    EbsDone => (ret = EFI_SUCCESS <=> (nExit > 0 /\ nExit > nExitFail))

\* C3: after N failed fetches and then a successful fetch into an aligned
\* buffer (N < 8), get_memory_map has returned success with N+1 buffers
\* allocated, N released, and exactly the returned buffer outstanding.
C3_FetchRetryAccounting ==
    (op = "gmm" /\ FetchSucceeded /\ ~Misaligned(Map)) =>
        /\ pc = "done"
        /\ ret = EFI_SUCCESS
        /\ nFetchFail < 8
        /\ nAlloc = nFetchFail + 1
        /\ nFree = nFetchFail
        /\ ~badFree
        /\ outMemoryMap = Map
        /\ outstanding = {outMemoryMap}

C3_Witness ==
    GmmDone /\ ret = EFI_SUCCESS /\ retLine = 116 /\ nFetchFail = 7

\* C4: when the fetch has failed 8 times, get_memory_map releases the 8th
\* buffer and returns the exhaustion outcome with nothing outstanding, after
\* exactly 8 probes, allocations, fetches and releases and no further call.
C4_ExhaustedAfterEight ==
    op = "gmm" =>
        /\ nFetchFail <= 8
        /\ nFetchFail = 8 =>
              \/ /\ pc = "gmm_free_retry"
                 /\ nFree = 7
                 /\ outstanding = {Map}
              \/ /\ pc = "done"
                 /\ ret = EFI_DEVICE_ERROR
                 /\ retLine = 120
                 /\ outstanding = {}
                 /\ ~badFree
                 /\ nProbe = 8 /\ nAlloc = 8 /\ nFetch = 8 /\ nFree = 8

C4_Witness ==
    GmmDone /\ nFetchFail = 8 /\ retLine = 120

\* C5: the status get_memory_map returns on exhaustion (EFI_DEVICE_ERROR, the
\* return at line 120) is returned by no other failing return of it.
C5_ExhaustionDistinct ==
    (GmmDone /\ retLine # 120 /\ ret # EFI_SUCCESS) => ret # EFI_DEVICE_ERROR

\* C6: the handshake is never called more than 8 times (nor the probe), and
\* once it has failed 8 times exit_boot_services releases the buffer and
\* returns EFI_ABORTED, never success.
C6_AbortedAfterEightHandshakes ==
    op = "ebs" =>
        /\ nExit <= 8
        /\ nProbe <= 8
        /\ nExitFail = 8 =>
              \/ pc = "ebs_free_exit" /\ nExit = 8
              \/ /\ pc = "done"
                 /\ ret = EFI_ABORTED
                 /\ retLine = 152
                 /\ nExit = 8 /\ nProbe = 8 /\ nAlloc = 8 /\ nFetch = 8

C6_Witness ==
    EbsDone /\ nExitFail = 8 /\ ret = EFI_ABORTED

\* C7: exit_boot_services with a null image handle has returned
\* EFI_INVALID_PARAMETER without a single firmware call, whatever gST is.
C7_NullHandleNoFirmwareCall ==
    (op = "ebs" /\ ImageHandle = NULL) =>
        /\ pc = "done"
        /\ ret = EFI_INVALID_PARAMETER
        /\ nProbe = 0 /\ nAlloc = 0 /\ nFetch = 0 /\ nFree = 0 /\ nExit = 0

C7_Witness ==
    EbsDone /\ ImageHandle = NULL /\ gST # "ready"

\* C8: after a fetch succeeded into a misaligned buffer, get_memory_map is
\* either about to release that buffer or has released it exactly once and
\* returned EFI_DEVICE_ERROR in the same attempt, with no further probe,
\* allocation or fetch and nothing outstanding.
C8_MisalignedReleasedOnce ==
    (op = "gmm" /\ FetchSucceeded /\ Misaligned(Map)) =>
        \/ /\ pc = "gmm_free_misaligned"
           /\ nFree = nFetchFail
           /\ outstanding = {Map}
        \/ /\ pc = "done"
           /\ ret = EFI_DEVICE_ERROR
           /\ retLine = 111
           /\ Retry = nFetchFail
           /\ nFree = nFetchFail + 1
           /\ ~badFree
           /\ outstanding = {}
           /\ nProbe = nFetch /\ nAlloc = nFetch

C8_Witness ==
    GmmDone /\ retLine = 111 /\ nFetchFail >= 1 /\ nFree = nFetchFail + 1

\* C9: on every successful return of get_memory_map the caller's *MemoryMap
\* is a buffer of this call, still allocated, whose address is a multiple
\* of 8.
C9_SuccessAligned ==
    (GmmDone /\ ret = EFI_SUCCESS) =>
        /\ outMemoryMap \in outstanding
        /\ outMemoryMap % 8 = 0

C11_SuccessCarriesFetchValues ==
    (GmmDone /\ ret = EFI_SUCCESS) =>
        /\ fetchedStatus = EFI_SUCCESS
        /\ outMemoryMap = Map
        /\ Map \in outstanding
        /\ outMemoryMapSize = fetchedSize
        /\ MapKey = fetchedKey
        /\ DescriptorSize = fetchedDesc
        /\ DescriptorVersion = fetchedVer

\* An attempt of the running function has made its allocation / its fetch.
AllocMade == nProbe > 0 /\ nAlloc = nProbe
FetchMade == nProbe > 0 /\ nFetch = nProbe

\* C12: in every attempt of get_memory_map the size passed to AllocatePool
\* is the probe's size plus 16 times the probe's descriptor size, and the
\* fetch is passed the same size.
C12_AllocSizeIsProbePlusSlack ==
    op = "gmm" =>
        /\ AllocMade => allocSize = probedSize + 16 * probedDesc
        /\ FetchMade => fetchArgSize = allocSize

C12_Witness ==
    /\ op = "gmm" /\ FetchMade /\ Retry >= 1
    /\ probedSize = 1 /\ probedDesc = 1 /\ allocSize = 17 /\ fetchArgSize = 17

\* C13: once AllocatePool has failed, in either function, the function has
\* returned that status at once: the allocation is the last firmware call,
\* no fetch or handshake follows it, and no buffer is outstanding.
C13_AllocFailureImmediate ==
    allocFailed =>
        /\ pc = "done"
        /\ ret = Status
        /\ ret \in AllocatePoolStatuses \ {EFI_SUCCESS}
        /\ retLine = (IF op = "gmm" THEN 88 ELSE 104)
        /\ lastCall = "alloc"
        /\ outstanding = {}
        /\ ~badFree
        /\ nAlloc = nProbe
        /\ nFetch = nAlloc - 1
        /\ nFree = nAlloc - 1
        /\ nExit = nFetch - nFetchFail

C13_Witness ==
    allocFailed /\ pc = "done" /\ nAlloc >= 2 /\ ret = EFI_OUT_OF_RESOURCES

\* No firmware service has been called.
NoFirmwareCall ==
    /\ lastCall = "none"
    /\ nProbe = 0 /\ nAlloc = 0 /\ nFetch = 0 /\ nFree = 0 /\ nExit = 0

\* C14: called with a null output pointer (get_memory_map) or while the
\* system table or its boot-services table is absent (both functions), the
\* function has returned a validation / not-ready status at once, without
\* entering the retry loop and without any firmware call.
C14_NotReadyOrInvalidFailsAtOnce ==
    /\ (op = "gmm" /\ nullArgs # {}) =>
          pc = "done" /\ ret = EFI_INVALID_PARAMETER /\ Retry = 0 /\ NoFirmwareCall
    /\ (op = "gmm" /\ nullArgs = {} /\ gST # "ready") =>
          pc = "done" /\ ret = EFI_NOT_READY /\ Retry = 0 /\ NoFirmwareCall
    /\ (op = "ebs" /\ gST # "ready") =>
          /\ pc = "done" /\ Retry = 0 /\ NoFirmwareCall
          /\ ret = (IF ImageHandle = NULL THEN EFI_INVALID_PARAMETER
                                         ELSE EFI_NOT_READY)

C14_Witness ==
    GmmDone /\ nullArgs = {} /\ gST = "no_boot_services" /\ ret = EFI_NOT_READY

\* C15: the acquisition part of an exit_boot_services attempt does what a
\* get_memory_map attempt does with the same firmware answers: it allocates
\* the probe's size plus 16 times the probe's descriptor size, fetches with
\* that size, and goes on to use the buffer (here: to the handshake) only
\* when the buffer is 8-byte aligned.
C15_EbsAcquiresLikeGmm ==
    op = "ebs" =>
        /\ AllocMade => allocSize = probedSize + 16 * probedDesc
        /\ FetchMade => fetchArgSize = allocSize
        /\ (pc = "ebs_exit" \/ lastCall = "exit") => ~Misaligned(Map)

\* C16: the attempt counter of exit_boot_services counts failed handshakes
\* only, and EFI_ABORTED is returned only after 8 failed handshakes.
C16_AttemptsCountHandshakesOnly ==
    op = "ebs" =>
        /\ pc = "ebs_probe" => Retry = nExitFail
        /\ (pc = "done" /\ ret = EFI_ABORTED) => (nExit = 8 /\ nExitFail = 8)

\* C17: the handshake is called right after a successful fetch, with no
\* firmware call in between, and is passed the map key that fetch of the
\* same attempt reported.
C17_HandshakeUsesFreshToken ==
    op = "ebs" =>
        /\ pc = "ebs_exit" =>
              /\ lastCall = "fetch"
              /\ fetchedStatus = EFI_SUCCESS
              /\ MapKey = fetchedKey
        /\ lastCall = "exit" =>
              /\ fetchedStatus = EFI_SUCCESS
              /\ exitKey = fetchedKey

C17_Witness ==
    op = "ebs" /\ lastCall = "exit" /\ nExit >= 2 /\ exitKey = 1

\* C18: in both functions at most one buffer is outstanding at any time,
\* FreePool is only ever given an outstanding buffer, every successfully
\* allocated buffer is either released once or still outstanding, and at
\* return a buffer is outstanding exactly when the last attempt's fetch
\* succeeded and the function reports success: the buffer handed to the
\* caller, or the one the successful handshake consumed as the last
\* firmware call.
C18_BufferOwnership ==
    /\ Cardinality(outstanding) <= 1
    /\ ~badFree
    /\ nFree + Cardinality(outstanding)
          = nAlloc - (IF allocFailed THEN 1 ELSE 0)
    /\ outstanding # {} => outstanding = {Map}
    /\ pc = "done" =>
          /\ outstanding # {} <=> (fetchedStatus = EFI_SUCCESS /\ ret = EFI_SUCCESS)
          /\ ret # EFI_SUCCESS => outstanding = {}
          /\ (op = "gmm" /\ outstanding # {}) => outMemoryMap = Map
          /\ (op = "ebs" /\ outstanding # {}) =>
                (lastCall = "exit" /\ retLine = 132)

C18_Witness ==
    /\ EbsDone /\ ret = EFI_SUCCESS /\ nExitFail >= 1 /\ nFetchFail >= 1
    /\ outstanding = {Map} /\ nFree = nAlloc - 1

\* C19: once called, each function eventually returns, and on the way it
\* never makes more than 8 probes, 8 allocations, 8 fetches or 8 handshakes.
C19_Terminates ==
    /\ (pc # "idle") ~> (pc = "done")
    /\ [](nProbe <= 8 /\ nAlloc <= 8 /\ nFetch <= 8 /\ nExit <= 8)

C19_Witness ==
    EbsDone /\ nProbe = 8 /\ nAlloc = 8 /\ nFetch = 8 /\ nExit >= 1 /\ nFetchFail >= 1

\* C20: get_memory_map writes *MemoryMap and *MemoryMapSize only on the
\* path that returns at line 116: until then, and on every return with a
\* non-success status, both hold what they held when the function was
\* called, so the caller is never left with a pointer to a released buffer.
C20_OutputsUntouchedOnFailure ==
    op = "gmm" =>
        /\ retLine # 116 =>
              /\ outMemoryMap = inMemoryMap
              /\ outMemoryMapSize = inMemoryMapSize
        /\ (pc = "done" /\ ret # EFI_SUCCESS) =>
              /\ retLine # 116
              /\ outMemoryMap = inMemoryMap
              /\ outMemoryMapSize = inMemoryMapSize

\* A failing return after buffers were allocated and released, with the
\* caller's pointer and size still in place.
C20_Witness ==
    /\ GmmDone /\ ret # EFI_SUCCESS /\ nFree >= 1
    /\ inMemoryMap # NULL /\ inMemoryMapSize # 0
    /\ outMemoryMap = inMemoryMap /\ outMemoryMapSize = inMemoryMapSize

============================================================================
